---- MODULE Spec2Model ----
(***************************************************************************)
(* Profile-group reconciliation of the extension manager:                  *)
(*   source/lib/extension-state-manager.ts  (currentState, apply, restore) *)
(*   source/background.ts                   (handleNavigation)             *)
(*   source/profiles/profiles-app.svelte    (edits of the profile store)   *)
(* Every `await` of the source is a suspension point: an action is one run *)
(* of a task from the moment it resumes up to and including the external   *)
(* call it suspends on.  A call to the component controller takes effect   *)
(* when it is issued; the store is read when the reading task resumes.     *)
(***************************************************************************)
EXTENDS Integers, Sequences, FiniteSets, TLC

\* ------------------------------------------------------------------ bounds
\* number of navigation handlers that can be in flight at the same time
NumTasks == 2

Tasks == 1..NumTasks

\* ------------------------------------------------------------- data model
None == "none"

\* optional value: <<>> is null, <<x>> is x
Null == <<>>
Some(x) == <<x>>

\* the components (browser extensions) known to the model
Ext == {"e1", "e2"}

\* URLs are strings, modelled as sequences of characters
UrlA == <<"h", ":", "/", "/", "a", "/">>
UrlB == <<"h", ":", "/", "/", "b", "/">>
UrlN == <<"h", ":", "/", "/", "n", "/">>
UrlInternal == <<"a", "b", "o", "u", "t", ":", "x">>

Urls == {UrlA, UrlB, UrlN, UrlInternal}

\* the URLs the sequential caller passes to applyProfileStates
ApiUrls == {UrlA, UrlB}

\* String.prototype.startsWith
StartsWith(s, prefix) ==
    /\ Len(prefix) <= Len(s)
    /\ SubSeq(s, 1, Len(prefix)) = prefix

\* the prefixes handleNavigation skips
SkippedPrefixes ==
    { <<"c", "h", "r", "o", "m", "e", ":", "/", "/">>,
      <<"c", "h", "r", "o", "m", "e", "-", "e", "x", "t", "e", "n", "s", "i", "o", "n", ":", "/", "/">>,
      <<"a", "b", "o", "u", "t", ":">>,
      <<"e", "d", "g", "e", ":", "/", "/">>,
      <<"b", "r", "a", "v", "e", ":", "/", "/">> }

IsSkippedUrl(url) == \E p \in SkippedPrefixes : StartsWith(url, p)

\* a page of each of the skipped kinds
InternalUrls == {prefix \o <<"x">> : prefix \in SkippedPrefixes}

\* url-wildcard: `*` stands for any (possibly empty) character sequence,
\* every other character is literal, the whole URL must be covered
\* `*` standing for one character or more
RECURSIVE urlWildcardOneOrMore(_, _)
urlWildcardOneOrMore(pattern, url) ==
    IF pattern = <<>> THEN url = <<>>
    ELSE /\ url # <<>>
         /\ IF Head(pattern) = "*"
            THEN \/ urlWildcardOneOrMore(Tail(pattern), Tail(url))
                 \/ urlWildcardOneOrMore(pattern, Tail(url))
            ELSE /\ Head(url) = Head(pattern)
                 /\ urlWildcardOneOrMore(Tail(pattern), Tail(url))

RECURSIVE urlWildcardMatch(_, _)
urlWildcardMatch(pattern, url) ==
    IF pattern = <<>> THEN url = <<>>
    ELSE IF Head(pattern) = "*"
         THEN \/ urlWildcardMatch(Tail(pattern), url)
              \/ (url # <<>> /\ urlWildcardMatch(pattern, Tail(url)))
         ELSE /\ url # <<>>
              /\ Head(url) = Head(pattern)
              /\ urlWildcardMatch(Tail(pattern), Tail(url))

\* the three pattern dialects
MatchTypes == {"host-wildcard", "url-wildcard", "regex"}

\* String.prototype.toLowerCase on the letters of the model
toLowerCase(c) == IF c = "A" THEN "a" ELSE IF c = "B" THEN "b" ELSE c

\* the part of a host pattern after its leading form: `*` stands for one or
\* more characters, every other character for itself whatever its case; the
\* whole host is covered
RECURSIVE hostBodyMatch(_, _)
hostBodyMatch(pattern, host) ==
    IF pattern = <<>> THEN host = <<>>
    ELSE /\ host # <<>>
         /\ IF Head(pattern) = "*"
            THEN \/ hostBodyMatch(Tail(pattern), Tail(host))
                 \/ hostBodyMatch(pattern, Tail(host))
            ELSE /\ toLowerCase(Head(host)) = toLowerCase(Head(pattern))
                 /\ hostBodyMatch(Tail(pattern), Tail(host))

\* one or more characters, a dot, then the body
subdomainMatch(body, host) ==
    \E k \in 2..Len(host) :
        /\ host[k] = "."
        /\ hostBodyMatch(body, SubSeq(host, k + 1, Len(host)))

\* every leading form read as `this domain or any subdomain`
hostWildcardBareToo(pattern, host) ==
    LET form == CHOOSE f \in {<<"*", "*", ".">>, <<"*", ".">>, <<".">>, <<>>} :
                    StartsWith(pattern, f) /\ (f = <<"*", ".">> => ~StartsWith(pattern, <<"*", "*">>))
        body == SubSeq(pattern, Len(form) + 1, Len(pattern))
    IN  \/ hostBodyMatch(body, host)
        \/ form # <<>> /\ subdomainMatch(body, host)

\* hostWildcardToRegex(pattern).test(host)
hostWildcardMatch(pattern, host) ==
    IF StartsWith(pattern, <<"*", "*", ".">>)
    THEN subdomainMatch(SubSeq(pattern, 4, Len(pattern)), host)
    ELSE IF StartsWith(pattern, <<"*", ".">>)
    THEN \/ hostBodyMatch(SubSeq(pattern, 3, Len(pattern)), host)
         \/ subdomainMatch(SubSeq(pattern, 3, Len(pattern)), host)
    ELSE IF StartsWith(pattern, <<".">>)
    THEN \/ hostBodyMatch(SubSeq(pattern, 2, Len(pattern)), host)
         \/ subdomainMatch(SubSeq(pattern, 2, Len(pattern)), host)
    ELSE hostBodyMatch(pattern, host)

\* new RegExp(pattern, 'i') does not throw.  The regular expressions of the
\* model are written with letters, `.` (any character), `x*` (x zero or more
\* times) and `[`, which opens a character class that nothing can close
RegExpCompiles(pattern) ==
    \A k \in 1..Len(pattern) :
        /\ pattern[k] # "["
        /\ pattern[k] = "*" => (k > 1 /\ pattern[k - 1] # "*")

RECURSIVE regExpMatchHere(_, _)
regExpMatchHere(pattern, text) ==
    IF pattern = <<>> THEN TRUE
    ELSE IF Len(pattern) >= 2 /\ pattern[2] = "*"
    THEN \/ regExpMatchHere(SubSeq(pattern, 3, Len(pattern)), text)
         \/ /\ text # <<>>
            /\ pattern[1] = "." \/ toLowerCase(pattern[1]) = toLowerCase(text[1])
            /\ regExpMatchHere(pattern, Tail(text))
    ELSE /\ text # <<>>
         /\ pattern[1] = "." \/ toLowerCase(pattern[1]) = toLowerCase(text[1])
         /\ regExpMatchHere(Tail(pattern), Tail(text))

\* new RegExp(pattern, 'i').test(text): the expression is searched for
RegExpTest(pattern, text) ==
    \E k \in 1..(Len(text) + 1) : regExpMatchHere(pattern, SubSeq(text, k, Len(text)))

\* the index of the first occurrence of sub in s from index from on, 0 if none
IndexOf(s, sub, from) ==
    LET at == {k \in from..(Len(s) - Len(sub) + 1) : SubSeq(s, k, k + Len(sub) - 1) = sub}
    IN  IF at = {} THEN 0 ELSE CHOOSE k \in at : \A m \in at : k <= m

\* the host of scheme://host[:port]/path in lower case, the raw string when
\* the URL has no scheme, and the empty host of a URL such as about:x
extractHost(url) ==
    LET authority == IndexOf(url, <<":", "/", "/">>, 1)
        start == authority + 3
        ends == {k \in start..Len(url) : url[k] \in {"/", ":"}}
        stop == IF ends = {} THEN Len(url) + 1 ELSE CHOOSE k \in ends : \A m \in ends : k <= m
    IN  IF authority > 1
        THEN [k \in 1..(stop - start) |-> toLowerCase(url[start + k - 1])]
        ELSE IF IndexOf(url, <<":">>, 1) > 1 THEN <<>> ELSE url

\* the condition's pattern accepts url, the condition switched on or not
matchUrlPattern(url, condition) ==
    IF condition.type = "host-wildcard"
    THEN hostWildcardMatch(condition.pattern, extractHost(url))
    ELSE IF condition.type = "url-wildcard"
    THEN urlWildcardMatch(condition.pattern, url)
    ELSE RegExpCompiles(condition.pattern) /\ RegExpTest(condition.pattern, url)

matchUrl(url, condition) ==
    IF ~condition.enabled THEN FALSE
    ELSE IF condition.type = "host-wildcard"
    THEN hostWildcardMatch(condition.pattern, extractHost(url))
    ELSE IF condition.type = "url-wildcard"
    THEN urlWildcardMatch(condition.pattern, url)
    ELSE RegExpCompiles(condition.pattern) /\ RegExpTest(condition.pattern, url)

\* every pattern held to the rules of regular expressions, whatever its type
validateAsRegex(pattern, type) ==
    IF \A k \in 1..Len(pattern) : pattern[k] = " " THEN "empty"
    ELSE IF ~RegExpCompiles(pattern) THEN "invalid"
    ELSE None

\* the message of validatePattern, None when the pattern is accepted
validatePattern(pattern, type) ==
    IF \A k \in 1..Len(pattern) : pattern[k] = " " THEN "empty"
    ELSE IF type = "regex" /\ ~RegExpCompiles(pattern) THEN "invalid"
    ELSE None

\* some condition of the profile accepts url, enabled profile or not
matchAnyCondition(url, profile) ==
    \E k \in 1..Len(profile.conditions) : matchUrl(url, profile.conditions[k])

matchProfile(url, profile) ==
    /\ profile.enabled
    /\ \E k \in 1..Len(profile.conditions) : matchUrl(url, profile.conditions[k])

\* the first enabled profile matching url, whatever its priority
findFirstMatchingProfile(url, profiles) ==
    LET cand == {k \in 1..Len(profiles) : matchProfile(url, profiles[k])}
    IN  IF cand = {} THEN None
        ELSE profiles[CHOOSE k \in cand : \A m \in cand : k <= m].id

\* the enabled profiles matching url, the first of highest priority wins
findMatchingProfile(url, profiles) ==
    LET cand == {k \in 1..Len(profiles) : matchProfile(url, profiles[k])}
        best == {k \in cand : \A m \in cand :
                    \/ profiles[m].priority < profiles[k].priority
                    \/ (profiles[m].priority = profiles[k].priority /\ k <= m)}
    IN IF cand = {} THEN None ELSE profiles[CHOOSE k \in best : TRUE].id

Cond(pattern) == [type |-> "url-wildcard", pattern |-> pattern, enabled |-> TRUE]

\* the profile definitions held by the profile store
ProfileA ==
    [id |-> "A", enabled |-> TRUE, priority |-> 1,
     conditions |-> << Cond(<<"*", ":", "/", "/", "a", "/", "*">>) >>,
     extensionStates |-> << [extensionId |-> "e1", targetState |-> "enable"],
                            [extensionId |-> "e2", targetState |-> "disable"] >>]

ProfileB ==
    [id |-> "B", enabled |-> TRUE, priority |-> 2,
     conditions |-> << Cond(<<"*", ":", "/", "/", "b", "/", "*">>) >>,
     extensionStates |-> << [extensionId |-> "e1", targetState |-> "disable"],
                            [extensionId |-> "e2", targetState |-> "keep"] >>]

ProfileK ==
    [id |-> "K", enabled |-> TRUE, priority |-> 0,
     conditions |-> << Cond(<<"*", "k", "*">>) >>,
     extensionStates |-> << [extensionId |-> "e2", targetState |-> "keep"] >>]

\* a profile whose only condition is switched off
ProfileD ==
    [id |-> "D", enabled |-> TRUE, priority |-> 3,
     conditions |-> << [type |-> "url-wildcard", pattern |-> <<"*">>, enabled |-> FALSE] >>,
     extensionStates |-> << [extensionId |-> "e2", targetState |-> "enable"] >>]

AllProfiles == {ProfileA, ProfileB, ProfileK}

ProfileById(pid) == CHOOSE p \in AllProfiles \cup {ProfileD} : p.id = pid

\* ProfileMatchState at process start, and after every restore
IdleState == [activeProfileId |-> None, savedStates |-> <<>>, lastMatchedUrl |-> Null]

\* ------------------------------------------------------------------ state
VARIABLES
    currentState,   \* the module-level ProfileMatchState
    enabled,        \* component controller: the enabled flag of every component
    installed,      \* components chrome.management.getAll() lists
    locked,         \* installed components that refuse every change (policy)
    store,          \* profile store: [profilesEnabled, profileGroups]
    tasks,          \* the asynchronous calls in flight, one record per slot
    inForce,        \* per component: the profile whose target was last written and not restored
    skipped,        \* some handler found the store disabled or empty
    lastUrl,        \* URL of the last main-frame event that was not ignored
    baseline,       \* the enabled flags before the automation touched anything
    cur,            \* sequential caller: its call in progress or just finished
    prev,           \* sequential caller: the call before cur
    caller,         \* who calls: "events" (listeners, not waiting), "sequential", "tabs", "popup"
    browser,        \* the tabs: the URL each shows, the active one, the tab of the last event
    got,            \* the object getCurrentState() returned to an inspecting caller, if any
    query,          \* the last call of a function of the URL matcher, with its result
    undoStack,      \* the popup's UndoStack: [undoStack, redoStack], sequences of entries
    journal         \* popup caller: its last two calls of the UndoStack, newest first

\* everything but the tabs
handlerVars == <<currentState, enabled, installed, locked, store, tasks, inForce,
                 skipped, lastUrl, baseline, cur, prev, caller, got, query,
                 undoStack, journal>>

vars == <<handlerVars, browser>>

\* a call to the component controller or the profile store
NoCall == [op |-> "none", id |-> None, enabled |-> FALSE, why |-> None]
GetAllCall == [op |-> "getAll", id |-> None, enabled |-> FALSE, why |-> None]
OptionsCall == [op |-> "options", id |-> None, enabled |-> FALSE, why |-> None]
SetCall(id, value, why) == [op |-> "set", id |-> id, enabled |-> value, why |-> why]

\* a free task slot
IdleTask ==
    [pc |-> "idle", op |-> None, url |-> <<>>, prof |-> None,
     iter |-> <<>>, i |-> 0, ret |-> None, saved |-> <<>>]

\* what the sequential caller records of a call: its arguments, the state and
\* the enabled flags it started from, the external calls it issued, the store
\* content handleNavigation read, whether it went on to match profiles and
\* whether one of its external calls raised
NoOptions == [profilesEnabled |-> FALSE, profileGroups |-> <<>>]

NoRecord ==
    [op |-> None, pid |-> None, url |-> <<>>, frameId |-> 0, st0 |-> IdleState,
     ext0 |-> [e \in Ext |-> FALSE], log |-> <<>>, done |-> TRUE,
     options |-> NoOptions, matched |-> FALSE, raised |-> FALSE, again |-> Null]

\* what is kept of the call before the last one
Summary(rec) ==
    [op |-> rec.op, pid |-> rec.pid, fromIdle |-> (rec.st0 = IdleState),
     ext0 |-> rec.ext0]

CallRecord(op, pid, url, frameId) ==
    [op |-> op, pid |-> pid, url |-> url, frameId |-> frameId, st0 |-> currentState,
     ext0 |-> enabled, log |-> <<>>, done |-> FALSE,
     options |-> NoOptions, matched |-> FALSE, raised |-> FALSE, again |-> Null]

\* ------------------------------------------------- the component controller
\* setExtensionEnabledSafe(id, enabled, {swallow: true}): whether the change was made
setExtensionEnabledSafe(id, value) == id \in installed /\ id \notin locked

\* the enabled flags after the controller served `call`
ControllerAfter(call) ==
    IF call.op = "set" /\ setExtensionEnabledSafe(call.id, call.enabled)
    THEN [enabled EXCEPT ![call.id] = call.enabled]
    ELSE enabled

\* ---------------------------------------------------- extension-state-manager
\* the configs of a profile that are not `keep`, in order
TargetConfigs(extensionConfigs) ==
    SelectSeq(extensionConfigs, LAMBDA config : config.targetState # "keep")

\* a snapshot that records the target values instead of the current ones
RECURSIVE saveTargetStates(_)
saveTargetStates(extensionConfigs) ==
    IF extensionConfigs = <<>> THEN <<>>
    ELSE LET config == Head(extensionConfigs)
             rest == saveTargetStates(Tail(extensionConfigs))
         IN IF config.targetState # "keep" /\ config.extensionId \in installed
            THEN <<[extensionId |-> config.extensionId,
                    wasEnabled |-> (config.targetState = "enable")]>> \o rest
            ELSE rest

\* saveCurrentStates without its filter: an entry for the `keep` configs too
RECURSIVE saveEveryState(_)
saveEveryState(extensionConfigs) ==
    IF extensionConfigs = <<>> THEN <<>>
    ELSE LET config == Head(extensionConfigs)
             rest == saveEveryState(Tail(extensionConfigs))
         IN IF config.extensionId \in installed
            THEN <<[extensionId |-> config.extensionId,
                    wasEnabled |-> enabled[config.extensionId]]>> \o rest
            ELSE rest

\* saveCurrentStates: one entry per non-keep config whose component getAll() lists
RECURSIVE saveCurrentStates(_)
saveCurrentStates(extensionConfigs) ==
    IF extensionConfigs = <<>> THEN <<>>
    ELSE LET config == Head(extensionConfigs)
             rest == saveCurrentStates(Tail(extensionConfigs))
         IN IF config.targetState # "keep" /\ config.extensionId \in installed
            THEN <<[extensionId |-> config.extensionId,
                    wasEnabled |-> enabled[config.extensionId]]>> \o rest
            ELSE rest

\* shouldRestoreStates without its check for Idle
shouldRestoreOnMismatch(newUrl, matchingProfile) ==
    matchingProfile # currentState.activeProfileId

\* shouldRestoreStates asking for a restore only when no profile matches
shouldRestoreUnmatched(newUrl, matchingProfile) ==
    currentState.activeProfileId # None /\ matchingProfile = None

\* shouldRestoreStates asking for a restore whenever a profile is active
shouldRestoreWhenActive(newUrl, matchingProfile) ==
    currentState.activeProfileId # None

\* shouldRestoreStates(newUrl, matchingProfile); matchingProfile is an id or None
shouldRestoreStates(newUrl, matchingProfile) ==
    IF currentState.activeProfileId = None THEN FALSE
    ELSE IF matchingProfile = None THEN TRUE
    ELSE matchingProfile # currentState.activeProfileId

\* applyProfileStates without its restore-first branch
NeverRestoresFirst(profileId) == FALSE

\* applyProfileStates line 81: a different profile is active
OtherProfileActive(profileId) ==
    /\ currentState.activeProfileId # None
    /\ currentState.activeProfileId # profileId

\* applyProfileStates without its already-active check
NeverAlreadyActive(profileId) == FALSE

\* applyProfileStates line 89: this profile is already active
AlreadyActive(profileId) == currentState.activeProfileId = profileId

\* restoreOriginalStates line 133: nothing to restore
NothingToRestore ==
    \/ currentState.activeProfileId = None
    \/ Len(currentState.savedStates) = 0

\* a commit of the profile and the URL that leaves the recorded snapshot alone
CommittedKeepsSnapshot(profileId, savedStates, url) ==
    [activeProfileId |-> profileId, savedStates |-> currentState.savedStates,
     lastMatchedUrl |-> Some(url)]

\* the state applyProfileStates commits
Committed(profileId, savedStates, url) ==
    [activeProfileId |-> profileId, savedStates |-> savedStates,
     lastMatchedUrl |-> Some(url)]

\* What one run of a task does: the new ProfileMatchState, the task's new
\* position, and the external call it suspends on (NoCall: none).
Outcome(cs, task, call) == [cs |-> cs, task |-> task, call |-> call]

\* the task returns to its caller, which has nothing left to do
Return(cs) == Outcome(cs, IdleTask, NoCall)

\* restoreOriginalStates returning at once, without the reset, when there is
\* nothing to restore
RestoreEnterKeepsState(tk, ret) ==
    IF NothingToRestore
    THEN Outcome(currentState,
                 [tk EXCEPT !.pc = "after_restore", !.ret = ret, !.iter = <<>>, !.i = 0],
                 NoCall)
    ELSE LET it == currentState.savedStates
         IN Outcome(currentState,
                    [tk EXCEPT !.pc = "restore_loop", !.ret = ret, !.iter = it, !.i = 1],
                    SetCall(it[1].extensionId, it[1].wasEnabled, "restore"))

\* restoreOriginalStates, from the call to its first await or its return
RestoreEnter(tk, ret) ==
    IF NothingToRestore
    THEN Outcome(IdleState,
                 [tk EXCEPT !.pc = "after_restore", !.ret = ret, !.iter = <<>>, !.i = 0],
                 NoCall)
    ELSE LET it == currentState.savedStates
         IN Outcome(currentState,
                    [tk EXCEPT !.pc = "restore_loop", !.ret = ret, !.iter = it, !.i = 1],
                    SetCall(it[1].extensionId, it[1].wasEnabled, "restore"))

\* restoreOriginalStates giving up, without the reset, at the first refused request
RestoreNextUntilRefused(tk) ==
    IF ~setExtensionEnabledSafe(tk.iter[tk.i].extensionId, tk.iter[tk.i].wasEnabled)
    THEN Outcome(currentState, [tk EXCEPT !.pc = "after_restore", !.iter = <<>>, !.i = 0],
                 NoCall)
    ELSE IF tk.i < Len(tk.iter)
    THEN Outcome(currentState, [tk EXCEPT !.i = tk.i + 1],
                 SetCall(tk.iter[tk.i + 1].extensionId, tk.iter[tk.i + 1].wasEnabled,
                         "restore"))
    ELSE Outcome(IdleState, [tk EXCEPT !.pc = "after_restore", !.iter = <<>>, !.i = 0],
                 NoCall)

\* restoreOriginalStates resetting the profile and the snapshot, not the URL
RestoreNextKeepsUrl(tk) ==
    IF tk.i < Len(tk.iter)
    THEN Outcome(currentState, [tk EXCEPT !.i = tk.i + 1],
                 SetCall(tk.iter[tk.i + 1].extensionId, tk.iter[tk.i + 1].wasEnabled,
                         "restore"))
    ELSE Outcome([currentState EXCEPT !.activeProfileId = None, !.savedStates = <<>>],
                 [tk EXCEPT !.pc = "after_restore", !.iter = <<>>, !.i = 0],
                 NoCall)

\* restoreOriginalStates resumes after the set request of entry i
RestoreNext(tk) ==
    IF tk.i < Len(tk.iter)
    THEN Outcome(currentState, [tk EXCEPT !.i = tk.i + 1],
                 SetCall(tk.iter[tk.i + 1].extensionId, tk.iter[tk.i + 1].wasEnabled,
                         "restore"))
    ELSE Outcome(IdleState, [tk EXCEPT !.pc = "after_restore", !.iter = <<>>, !.i = 0],
                 NoCall)

\* applyProfileStates committing the new profile before it reads the snapshot
ApplyFromCheckCommitsFirst(tk) ==
    IF AlreadyActive(tk.prof)
    THEN Return([currentState EXCEPT !.lastMatchedUrl = Some(tk.url)])
    ELSE LET configs == ProfileById(tk.prof).extensionStates
         IN IF Len(TargetConfigs(configs)) = 0
            THEN Outcome(currentState,
                         [tk EXCEPT !.pc = "apply_saved", !.saved = <<>>], NoCall)
            ELSE Outcome(Committed(tk.prof, <<>>, tk.url),
                         [tk EXCEPT !.pc = "apply_saved",
                                    !.saved = saveCurrentStates(configs)],
                         GetAllCall)

\* applyProfileStates from line 88: skip, or take the snapshot
ApplyFromCheck(tk) ==
    IF AlreadyActive(tk.prof)
    THEN Return([currentState EXCEPT !.lastMatchedUrl = Some(tk.url)])
    ELSE LET configs == ProfileById(tk.prof).extensionStates
         IN IF Len(TargetConfigs(configs)) = 0
            THEN Outcome(currentState,
                         [tk EXCEPT !.pc = "apply_saved", !.saved = <<>>], NoCall)
            ELSE Outcome(currentState,
                         [tk EXCEPT !.pc = "apply_saved",
                                    !.saved = saveCurrentStates(configs)],
                         GetAllCall)

\* applyProfileStates, from the call to its first await or its return
ApplyEnter(tk) ==
    IF OtherProfileActive(tk.prof)
    THEN RestoreEnter(tk, "apply")
    ELSE ApplyFromCheck(tk)

\* applyProfileStates waiting, before each request and before the commit, until
\* no profile is recorded active
ApplyIssueAwaitsIdle(tk, k) ==
    LET targets == TargetConfigs(ProfileById(tk.prof).extensionStates)
    IN IF currentState.activeProfileId # None
       THEN Outcome(currentState, tk, NoCall)
       ELSE IF k <= Len(targets)
       THEN Outcome(currentState, [tk EXCEPT !.pc = "apply_loop", !.i = k],
                    SetCall(targets[k].extensionId, targets[k].targetState = "enable",
                            tk.prof))
       ELSE Return(Committed(tk.prof, tk.saved, tk.url))

\* applyProfileStates giving up, uncommitted, at the first refused request
ApplyIssueUntilRefused(tk, k) ==
    LET targets == TargetConfigs(ProfileById(tk.prof).extensionStates)
        refused == /\ k > 1
                   /\ ~setExtensionEnabledSafe(targets[k - 1].extensionId,
                                               targets[k - 1].targetState = "enable")
    IN IF refused THEN Return(currentState)
       ELSE IF k <= Len(targets)
       THEN Outcome(currentState, [tk EXCEPT !.pc = "apply_loop", !.i = k],
                    SetCall(targets[k].extensionId, targets[k].targetState = "enable",
                            tk.prof))
       ELSE Return(Committed(tk.prof, tk.saved, tk.url))

\* applyProfileStates: the set request of the k-th non-keep config, or the commit
ApplyIssue(tk, k) ==
    LET targets == TargetConfigs(ProfileById(tk.prof).extensionStates)
    IN IF k <= Len(targets)
       THEN Outcome(currentState, [tk EXCEPT !.pc = "apply_loop", !.i = k],
                    SetCall(targets[k].extensionId, targets[k].targetState = "enable",
                            tk.prof))
       ELSE Return(Committed(tk.prof, tk.saved, tk.url))

\* the caller of restoreOriginalStates resumes
ResumeAfterRestore(tk) ==
    IF tk.ret = "apply" THEN ApplyFromCheck(tk)
    ELSE IF tk.ret = "nav" /\ tk.prof # None THEN ApplyEnter(tk)
    ELSE Return(currentState)

\* getProfileGroups(options)
getProfileGroups(options) == options.profileGroups

\* handleNavigation without the check of the global flag
SkipsOnlyWhenEmpty(options) == Len(getProfileGroups(options)) = 0

\* handleNavigation lines 83-90: the store is switched off or holds no profile
SkipsReconciliation(options) ==
    \/ ~options.profilesEnabled
    \/ Len(getProfileGroups(options)) = 0

\* the lists the profile store can hold
ProfileLists ==
    {<<ProfileA, ProfileB>>, <<ProfileA>>, <<ProfileB>>, <<>>,
     <<ProfileA, ProfileB, ProfileD>>}

\* findMatchingProfile(url, profiles), tabulated for the URLs and lists of the model
Matching ==
    [url \in Urls |->
        [profiles \in ProfileLists |-> findMatchingProfile(url, profiles)]]

\* handleNavigation resumes with the options read from the store
NavigationWithOptions(tk, options) ==
    IF SkipsReconciliation(options) THEN Return(currentState)
    ELSE LET matchingProfile == Matching[tk.url][getProfileGroups(options)]
             tk2 == [tk EXCEPT !.prof = matchingProfile]
         IN IF shouldRestoreStates(tk.url, matchingProfile)
            THEN RestoreEnter(tk2, "nav")
            ELSE IF matchingProfile # None THEN ApplyEnter(tk2)
            ELSE Return(currentState)

\* -------------------------------------------------------------- bookkeeping
Accepted(call) == call.op = "set" /\ setExtensionEnabledSafe(call.id, call.enabled)

\* the history variables of the concurrent program are kept for "events" only
Audited == caller = "events"

InForceAfter(call) ==
    IF Audited /\ Accepted(call)
    THEN [inForce EXCEPT ![call.id] = IF call.why = "restore" THEN None ELSE call.why]
    ELSE inForce

Logged(rec, o) ==
    [rec EXCEPT !.log = IF o.call.op = "none" THEN @ ELSE Append(@, o.call),
                !.done = (o.task.pc = "idle")]

\* the run assigns a new object, with a new savedStates array, to currentState:
\* the resets of restoreOriginalStates (lines 134-138, 156-160) and the commit of
\* applyProfileStates (lines 115-119); line 90 writes a field of the live object
Replaces(t, o) ==
    \/ o.task.pc = "after_restore"
    \/ /\ tasks[t].pc \in {"apply_saved", "apply_loop"}
       /\ o.task.pc = "idle"
       /\ o.cs = Committed(tasks[t].prof, tasks[t].saved, tasks[t].url)

\* the returned object once the live state has an array of its own
Unshared(copy) ==
    IF copy = Null THEN copy ELSE Some([copy[1] EXCEPT !.shares = FALSE])

\* task t takes the run described by outcome o; rec is the caller's record
Take(t, o, rec) ==
    /\ currentState' = o.cs
    /\ got' = IF Replaces(t, o) THEN Unshared(got) ELSE got
    /\ enabled' = ControllerAfter(o.call)
    /\ inForce' = InForceAfter(o.call)
    /\ tasks' = [tasks EXCEPT ![t] = o.task]
    /\ cur' = IF rec.done THEN rec ELSE Logged(rec, o)
    /\ UNCHANGED <<installed, locked, baseline, caller, browser, query,
                 undoStack, journal>>

\* ------------------------------------------------------------------ actions
\* restoreOriginalStates: the loop of lines 149-153 and the reset of lines 156-160
RestoreStep(t) ==
    /\ tasks[t].pc = "restore_loop"
    /\ Take(t, RestoreNext(tasks[t]), cur)
    /\ UNCHANGED <<store, skipped, lastUrl, prev>>

\* `await restoreOriginalStates()` resumes in applyProfileStates or handleNavigation
AfterRestore(t) ==
    /\ tasks[t].pc = "after_restore"
    /\ Take(t, ResumeAfterRestore(tasks[t]), cur)
    /\ UNCHANGED <<store, skipped, lastUrl, prev>>

\* `await saveCurrentStates()` resumes: the first set request, or the commit
ApplySaved(t) ==
    /\ tasks[t].pc = "apply_saved"
    /\ Take(t, ApplyIssue(tasks[t], 1), cur)
    /\ UNCHANGED <<store, skipped, lastUrl, prev>>

\* the loop of lines 100-112 and the commit of lines 115-119
ApplyStep(t) ==
    /\ tasks[t].pc = "apply_loop"
    /\ Take(t, ApplyIssue(tasks[t], tasks[t].i + 1), cur)
    /\ UNCHANGED <<store, skipped, lastUrl, prev>>

\* the record of a call one of whose external calls raised
Raised(rec) == IF rec.done THEN rec ELSE [rec EXCEPT !.raised = TRUE]

\* `await optionsStorage.getAll()` rejects: the catch of lines 112-114 logs it
OptionsRaises(t) ==
    /\ tasks[t].pc = "nav_opts"
    /\ Take(t, Return(currentState), Raised(cur))
    /\ UNCHANGED <<store, skipped, lastUrl, prev>>

\* `await chrome.management.getAll()` rejects in saveCurrentStates: the call of
\* applyProfileStates rejects at line 95, and handleNavigation's catch logs it
GetAllRaises(t) ==
    /\ tasks[t].pc = "apply_saved"
    /\ Len(TargetConfigs(ProfileById(tasks[t].prof).extensionStates)) > 0
    /\ Take(t, Return(currentState), Raised(cur))
    /\ UNCHANGED <<store, skipped, lastUrl, prev>>

\* handleNavigation returning early for sub-frames only
IsSubframe(url, frameId) == frameId # 0

\* handleNavigation lines 63-77: sub-frame events and internal URLs are ignored
IsIgnored(url, frameId) == frameId # 0 \/ IsSkippedUrl(url)

\* handleNavigation up to `await optionsStorage.getAll()`
StartNavigation(t, url) ==
    /\ tasks' = [tasks EXCEPT ![t] =
                    [IdleTask EXCEPT !.pc = "nav_opts", !.op = "nav", !.url = url]]
    /\ lastUrl' = IF Audited THEN Some(url) ELSE lastUrl
    /\ UNCHANGED <<currentState, enabled, installed, locked, store, inForce,
                   skipped, baseline, caller, got, query,
                 undoStack, journal>>

\* the lowest free slot
FreeSlot(t) == tasks[t].pc = "idle" /\ \A u \in Tasks : u < t => tasks[u].pc # "idle"

\* a navigation listener calls handleNavigation(url, tabId, frameId) and does not wait
handleNavigation(url, frameId) ==
    IF IsIgnored(url, frameId)
    THEN UNCHANGED handlerVars
    ELSE \E t \in Tasks :
            /\ FreeSlot(t)
            /\ StartNavigation(t, url)
            /\ UNCHANGED <<cur, prev>>

\* `await optionsStorage.getAll()` resumes: lines 83-111 up to the first await
NavAfterOptions(t) ==
    /\ tasks[t].pc = "nav_opts"
    /\ Take(t, NavigationWithOptions(tasks[t], store),
            IF cur.done THEN cur
            ELSE [cur EXCEPT !.options = store, !.matched = ~SkipsReconciliation(store)])
    /\ skipped' = (skipped \/ (Audited /\ SkipsReconciliation(store)))
    /\ UNCHANGED <<store, lastUrl, prev>>

\* profiles-app.svelte handleGlobalToggle
handleGlobalToggle ==
    /\ store' = [store EXCEPT !.profilesEnabled = ~@]
    /\ UNCHANGED <<currentState, enabled, installed, locked, tasks, inForce,
                   skipped, lastUrl, baseline, cur, prev, caller, browser, got, query,
                 undoStack, journal>>

\* deleteProfileGroup(profileId): the stored list without that profile
deleteProfileGroup(profiles, profileId) ==
    SelectSeq(profiles, LAMBDA profile : profile.id # profileId)

\* profiles-app.svelte handleDeleteProfile, the user having confirmed
handleDeleteProfile(profileId) ==
    /\ \E k \in 1..Len(store.profileGroups) : store.profileGroups[k].id = profileId
    /\ store' = [store EXCEPT !.profileGroups = deleteProfileGroup(@, profileId)]
    /\ UNCHANGED <<currentState, enabled, installed, locked, tasks, inForce,
                   skipped, lastUrl, baseline, cur, prev, caller, browser, got, query,
                 undoStack, journal>>

\* ----------------------------------------------------- the sequential caller
\* the caller waits for its previous call before it makes the next one
CallerReady == cur.done /\ \A t \in Tasks : tasks[t].pc = "idle"

\* await applyProfileStates(profile, url)
CallApply(profile, url) ==
    /\ CallerReady
    /\ prev' = Summary(cur)
    /\ Take(1, ApplyEnter([IdleTask EXCEPT !.op = "apply", !.url = url,
                                           !.prof = profile.id]),
            CallRecord("apply", profile.id, url, 0))
    /\ UNCHANGED <<store, skipped, lastUrl>>

\* await restoreOriginalStates()
CallRestore ==
    /\ CallerReady
    /\ prev' = Summary(cur)
    /\ Take(1, RestoreEnter([IdleTask EXCEPT !.op = "restore"], "top"),
            CallRecord("restore", None, <<>>, 0))
    /\ UNCHANGED <<store, skipped, lastUrl>>

\* the options the caller's last call read, if that call was a handleNavigation
\* of this very URL that read them and returned without an error
HandledBefore(url) ==
    IF cur.op = "nav" /\ cur.url = url /\ cur.log # <<>> /\ ~cur.raised
    THEN Some(cur.options) ELSE Null

\* await handleNavigation(url, tabId, frameId)
CallNavigation(url, frameId) ==
    /\ CallerReady
    /\ prev' = Summary(cur)
    /\ IF IsIgnored(url, frameId)
       THEN /\ cur' = [CallRecord("nav", None, url, frameId) EXCEPT !.done = TRUE]
            /\ UNCHANGED <<currentState, enabled, installed, locked, store, tasks,
                           inForce, skipped, lastUrl, baseline, caller, got, query,
                 undoStack, journal>>
       ELSE /\ cur' = [CallRecord("nav", None, url, frameId) EXCEPT
                          !.log = <<OptionsCall>>, !.again = HandledBefore(url)]
            /\ StartNavigation(1, url)
    /\ UNCHANGED browser

\* ---------------------------------------------------------------- the tabs
NumTabs == 2
TabIds == 1..NumTabs

\* no handler is in flight
Quiescent == \A t \in Tasks : tasks[t].pc = "idle"

\* the browser reports an event of tab tabId, whose URL is url, while no handler
\* is in flight; active is the tab displayed from now on
Reported(tabId, url, active) ==
    /\ Quiescent
    /\ browser' = [url |-> [browser.url EXCEPT ![tabId] = url],
                   active |-> active, event |-> tabId]

\* webNavigation.onBeforeNavigate: tab tabId starts loading url in its main frame
onBeforeNavigate(tabId, url) ==
    /\ Reported(tabId, url, browser.active)
    /\ handleNavigation(url, 0)

\* webNavigation.onCommitted for the main frame of tab tabId
onCommitted(tabId) ==
    /\ Reported(tabId, browser.url[tabId], browser.active)
    /\ handleNavigation(browser.url[tabId], 0)

\* tabs.onActivated: the user switches to tab tabId; tabs.get returns its URL
onActivated(tabId) ==
    /\ tabId # browser.active
    /\ Reported(tabId, browser.url[tabId], tabId)
    /\ handleNavigation(browser.url[tabId], 0)

\* tabs.onUpdated with changeInfo.url: handled for the active tab only
onUpdated(tabId) ==
    /\ Reported(tabId, browser.url[tabId], browser.active)
    /\ IF tabId = browser.active
       THEN handleNavigation(browser.url[tabId], 0)
       ELSE UNCHANGED handlerVars

\* ------------------------------------------------------ the inspecting caller
\* what the caller's steps leave alone
programVars == <<enabled, installed, locked, store, tasks, inForce, skipped,
                 lastUrl, baseline, cur, prev, caller, browser, query,
                 undoStack, journal>>

\* getCurrentState(): `{...currentState}` is a new object with the fields of the
\* live one, so its savedStates is the live array
getCurrentState ==
    /\ got = Null
    /\ got' = Some([value |-> currentState, shares |-> TRUE])
    /\ UNCHANGED <<currentState, programVars>>

\* the caller lets go of the returned object
Forget ==
    /\ got # Null
    /\ got' = Null
    /\ UNCHANGED <<currentState, programVars>>

\* the caller assigns a field of the returned object
WriteField ==
    /\ got # Null
    /\ got[1].value.activeProfileId # None
    /\ got' = Some([got[1] EXCEPT !.value.activeProfileId = None])
    /\ UNCHANGED <<currentState, programVars>>

\* the caller calls savedStates.pop() on the returned object, between two handlers
WriteSaved ==
    /\ got # Null
    /\ Quiescent
    /\ Len(got[1].value.savedStates) > 0
    /\ LET shorter == SubSeq(got[1].value.savedStates, 1,
                             Len(got[1].value.savedStates) - 1)
       IN /\ got' = Some([got[1] EXCEPT !.value.savedStates = shorter])
          /\ currentState' = IF got[1].shares
                              THEN [currentState EXCEPT !.savedStates = shorter]
                              ELSE currentState
    /\ UNCHANGED programVars

\* clearState(): a new Idle object
clearState ==
    /\ Quiescent
    /\ currentState' = IdleState
    /\ got' = Unshared(got)
    /\ UNCHANGED programVars

\* a listener's event, delivered while no handler is in flight
Delivered(url) ==
    /\ Quiescent
    /\ handleNavigation(url, 0)
    /\ UNCHANGED browser

\* ------------------------------------------------- the caller of the matcher
\* strings over an alphabet, up to a length
StringsUpTo(alphabet, n) == UNION {[1..k -> alphabet] : k \in 0..n}

\* hosts and host patterns: a leading form, then a body
MaxHost == 3
MaxBody == 3
Hosts == StringsUpTo({"a", "A", "."}, MaxHost)
LeadingForms == {<<>>, <<"*", ".">>, <<".">>, <<"*", "*", ".">>}
HostPatterns ==
    {form \o body : form \in LeadingForms, body \in StringsUpTo({"a", "A", ".", "*"}, MaxBody)}

\* URLs and URL patterns, letter by letter
MaxUrl == 4
MaxUrlPattern == 3
ShortUrls == StringsUpTo({"a", "b"}, MaxUrl)
UrlPatterns == StringsUpTo({"a", "b", "*"}, MaxUrlPattern)

\* patterns as the editor may hold them: of any dialect, blank, or broken
MaxEdited == 3
EditedPatterns == StringsUpTo({"a", "*", ".", "[", " "}, MaxEdited)

\* the URLs conditions are evaluated against: two pages, a page on a host
\* written with a port and capitals, and a string that is not a URL
UrlPort == <<"h", ":", "/", "/", "A", ":", "a", "/">>
NotAUrl == <<"a">>
MatchedUrls == {UrlA, UrlB, UrlPort, NotAUrl}

\* the profiles handed to the matcher: with no condition, one that matches
\* everything, one that matches some URLs, one that is switched off
ProbeConditions ==
    {<<>>,
     << Cond(<<"*">>) >>,
     << Cond(<<"*", "a", "/">>) >>,
     << [Cond(<<"*">>) EXCEPT !.enabled = FALSE] >>,
     << [Cond(<<"*">>) EXCEPT !.enabled = FALSE], Cond(<<"*", "a", "/">>) >>}
MaxProfiles == 2
Priorities == {1, 2}
ProbeIds == <<"p1", "p2", "p3", "p4">>
ProbeProfiles ==
    [enabled : BOOLEAN, priority : Priorities, conditions : ProbeConditions]
ProbeProfile(k, profile) ==
    [id |-> ProbeIds[k], enabled |-> profile.enabled, priority |-> profile.priority,
     conditions |-> profile.conditions, extensionStates |-> <<>>]
ProbeLists(min, max) ==
    UNION {{[k \in 1..n |-> ProbeProfile(k, profiles[k])] :
                profiles \in [1..n -> ProbeProfiles]} : n \in min..max}

NoQuery ==
    [fn |-> None, subject |-> <<>>, pattern |-> <<>>, type |-> None, enabled |-> FALSE,
     profiles |-> <<>>, done |-> FALSE, matches |-> FALSE, value |-> None]

\* the functions of the matcher
MatcherFunctions ==
    {"hostWildcardToRegex", "urlWildcardToRegex", "matchUrl", "matchProfile",
     "findMatchingProfile", "validatePattern"}

\* the calls of function fn the caller may make
Queries(fn) ==
    CASE fn = "hostWildcardToRegex" ->
            {[NoQuery EXCEPT !.fn = fn, !.pattern = pattern, !.subject = host] :
                pattern \in HostPatterns, host \in Hosts}
      [] fn = "urlWildcardToRegex" ->
            {[NoQuery EXCEPT !.fn = fn, !.pattern = pattern, !.subject = url] :
                pattern \in UrlPatterns, url \in ShortUrls}
      [] fn = "matchUrl" ->
            {[NoQuery EXCEPT !.fn = fn, !.pattern = pattern, !.type = type,
                             !.enabled = e, !.subject = url] :
                pattern \in EditedPatterns, type \in MatchTypes, e \in BOOLEAN,
                url \in MatchedUrls}
      [] fn = "matchProfile" ->
            {[NoQuery EXCEPT !.fn = fn, !.profiles = profiles, !.subject = url] :
                profiles \in ProbeLists(1, 1), url \in {UrlA, UrlB}}
      [] fn = "findMatchingProfile" ->
            {[NoQuery EXCEPT !.fn = fn, !.profiles = profiles, !.subject = url] :
                profiles \in ProbeLists(0, MaxProfiles), url \in {UrlA, UrlB}}
      [] fn = "validatePattern" ->
            {[NoQuery EXCEPT !.fn = fn, !.pattern = pattern, !.type = type] :
                pattern \in EditedPatterns, type \in MatchTypes}

\* the condition a query is about
Condition(q) == [type |-> q.type, pattern |-> q.pattern, enabled |-> q.enabled]

\* what the caller's calls leave alone: the matcher is pure
matcherVars == <<currentState, enabled, installed, locked, store, tasks, inForce, skipped,
                 lastUrl, baseline, cur, prev, caller, browser, got, undoStack, journal>>

Asked(fn) == query.fn = fn /\ ~query.done

\* hostWildcardToRegex(pattern).test(host)
TestHostWildcard ==
    /\ Asked("hostWildcardToRegex")
    /\ query' = [query EXCEPT !.done = TRUE,
                              !.matches = hostWildcardMatch(query.pattern, query.subject)]
    /\ UNCHANGED matcherVars

\* urlWildcardToRegex(pattern).test(url)
TestUrlWildcard ==
    /\ Asked("urlWildcardToRegex")
    /\ query' = [query EXCEPT !.done = TRUE,
                              !.matches = urlWildcardMatch(query.pattern, query.subject)]
    /\ UNCHANGED matcherVars

CallMatchUrl ==
    /\ Asked("matchUrl")
    /\ query' = [query EXCEPT !.done = TRUE,
                              !.matches = matchUrl(query.subject, Condition(query))]
    /\ UNCHANGED matcherVars

CallMatchProfile ==
    /\ Asked("matchProfile")
    /\ query' = [query EXCEPT !.done = TRUE,
                              !.matches = matchProfile(query.subject, query.profiles[1])]
    /\ UNCHANGED matcherVars

CallFindMatchingProfile ==
    /\ Asked("findMatchingProfile")
    /\ query' = [query EXCEPT !.done = TRUE,
                              !.value = findMatchingProfile(query.subject, query.profiles)]
    /\ UNCHANGED matcherVars

CallValidatePattern ==
    /\ Asked("validatePattern")
    /\ query' = [query EXCEPT !.done = TRUE,
                              !.value = validatePattern(query.pattern, query.type)]
    /\ UNCHANGED matcherVars

\* ------------------------------------------------------------ specifications
FrameIds == {0, 1}

StoredProfiles == <<ProfileA, ProfileB>>

\* ------------------------------------------------------------------ undo-stack
\* most entries the caller lets the undo stack hold
MaxEntries == 2

\* the closure toggleExtension hands over: it remembers the component and whether it
\* was enabled at the click
Toggle(id, wasEnabled) == [id |-> id, wasEnabled |-> wasEnabled]

ToggleFunctions == {Toggle(id, wasEnabled) : id \in Ext, wasEnabled \in BOOLEAN}

\* an argument left out: no component, so no function of the caller's
Undefined == [id |-> None, wasEnabled |-> FALSE]

\* the function a caller passes as the second argument of do
UndoFunctions == {Toggle("e1", TRUE)}

\* toggle => chrome.management.setEnabled(id, toggle !== wasEnabled)
ToggleCall(toggleFunction, toggle) ==
    SetCall(toggleFunction.id, toggle # toggleFunction.wasEnabled, "popup")

\* _undoStack = [], _redoStack = []
NewUndoStack == [undoStack |-> <<>>, redoStack |-> <<>>]

\* Array.prototype.pop: the last element, and the array without it
Popped(array) == array[Len(array)]
AfterPop(array) == SubSeq(array, 1, Len(array) - 1)

\* what a method leaves: the stacks, the callbacks it called with their argument, and
\* whether it threw
Left(self, called, raised) == [self |-> self, called |-> called, raised |-> raised]

undoDroppingEntry(self) ==
    IF self.undoStack # <<>>
    THEN LET functions == Popped(self.undoStack)
         IN  Left([self EXCEPT !.undoStack = AfterPop(self.undoStack)],
                     << <<IF functions[2] # Undefined THEN functions[2] ELSE functions[1],
                          FALSE>> >>, FALSE)
    ELSE Left(self, <<>>, FALSE)

undo(self) ==
    IF self.undoStack # <<>>
    THEN LET functions == Popped(self.undoStack)
             toggleFunction == functions[1]
             undoFunction == functions[2]
         IN  Left([undoStack |-> AfterPop(self.undoStack),
                      redoStack |-> Append(self.redoStack, functions)],
                     << <<IF undoFunction # Undefined THEN undoFunction ELSE toggleFunction,
                          FALSE>> >>, FALSE)
    ELSE Left(self, <<>>, FALSE)

redo(self) ==
    IF self.redoStack # <<>>
    THEN LET functions == Popped(self.redoStack)
             doFunction == functions[1]
         IN  Left([undoStack |-> Append(self.undoStack, functions),
                      redoStack |-> AfterPop(self.redoStack)],
                     << <<doFunction, TRUE>> >>, FALSE)
    ELSE Left(self, <<>>, FALSE)

do(self, doFunction, undoFunction) ==
    IF doFunction \notin ToggleFunctions
    THEN Left(self, <<>>, TRUE)
    ELSE Left([undoStack |-> Append(self.undoStack, <<doFunction, undoFunction>>),
                  redoStack |-> <<>>],
                 << <<doFunction, TRUE>> >>, FALSE)

clear(self) == Left(NewUndoStack, <<>>, FALSE)

\* the caller's note of a call: the method, its arguments, the stacks before and what
\* the method did
Noted(op, args, outcome) ==
    [op |-> op, args |-> args, before |-> undoStack,
     called |-> outcome.called, raised |-> outcome.raised]

\* of the call before the last the method is kept, and the stacks an undo found
Earlier(note) ==
    [note EXCEPT !.args = <<>>, !.called = <<>>, !.raised = FALSE,
                 !.before = IF note.op = "undo" THEN note.before ELSE NewUndoStack]

\* the component controller after the callbacks a method called
EnabledAfter(called) ==
    IF called = <<>> THEN enabled
    ELSE ControllerAfter(ToggleCall(called[1][1], called[1][2]))

\* what the popup's calls leave alone
popupVars == <<currentState, installed, locked, store, tasks, inForce, skipped,
               lastUrl, baseline, cur, prev, caller, browser, got, query>>

Method(op, args, outcome) ==
    /\ caller = "popup"
    /\ undoStack' = outcome.self
    /\ enabled' = EnabledAfter(outcome.called)
    /\ journal' = <<Noted(op, args, outcome)>>
                    \o (IF journal = <<>> THEN <<>> ELSE <<Earlier(journal[1])>>)
    /\ UNCHANGED popupVars

\* undoStack.do(doFunction, undoFunction) by any caller
CallDo(doFunction, undoFunction) ==
    /\ Len(undoStack.undoStack) < MaxEntries
    /\ Method("do", <<doFunction, undoFunction>>, do(undoStack, doFunction, undoFunction))

\* a click on a component of the popup's list; with ctrl or meta it pins instead
toggleExtension(id, ctrlKey) ==
    IF ctrlKey
    THEN caller = "popup" /\ UNCHANGED vars
    ELSE CallDo(Toggle(id, enabled[id]), Undefined)

\* ctrl+Z undoes, ctrl+shift+Z redoes
keyboardEventListener(shiftKey) ==
    IF shiftKey
    THEN Method("redo", <<>>, redo(undoStack))
    ELSE Method("undo", <<>>, undo(undoStack))

CallClear ==
    /\ caller = "popup"
    /\ Method("clear", <<>>, clear(undoStack))

InitWorld ==
    /\ currentState = IdleState
    /\ installed \in SUBSET Ext
    /\ locked \in SUBSET installed
    /\ enabled \in [Ext -> BOOLEAN]
    /\ \A e \in Ext \ installed : enabled[e] = FALSE
    /\ baseline = enabled
    /\ tasks = [t \in Tasks |-> IdleTask]
    /\ inForce = [e \in Ext |-> None]
    /\ skipped = FALSE
    /\ lastUrl = Null
    /\ cur = NoRecord
    /\ prev = Summary(NoRecord)
    /\ store \in [profilesEnabled : BOOLEAN, profileGroups : {StoredProfiles}]
    /\ browser = [url |-> [tabId \in TabIds |-> UrlN], active |-> 1, event |-> 1]
    /\ got = Null
    /\ query = NoQuery
    /\ undoStack = NewUndoStack
    /\ journal = <<>>

Init == InitWorld /\ caller = "events"

\* the program: navigation events arrive while earlier handlers are suspended
Next ==
    \/ \E url \in Urls, frameId \in FrameIds :
            handleNavigation(url, frameId) /\ UNCHANGED browser
    \/ \E t \in Tasks : NavAfterOptions(t)
    \/ \E t \in Tasks : RestoreStep(t)
    \/ \E t \in Tasks : AfterRestore(t)
    \/ \E t \in Tasks : ApplySaved(t)
    \/ \E t \in Tasks : ApplyStep(t)
    \/ handleGlobalToggle

Spec == Init /\ [][Next]_vars

\* one caller that awaits each call before the next
NextSeq ==
    \/ \E profile \in AllProfiles, url \in ApiUrls : CallApply(profile, url)
    \/ CallRestore
    \/ \E url \in Urls, frameId \in FrameIds : CallNavigation(url, frameId)
    \/ \E url \in InternalUrls : CallNavigation(url, 0)
    \/ \E t \in Tasks : NavAfterOptions(t)
    \/ \E t \in Tasks : RestoreStep(t)
    \/ \E t \in Tasks : AfterRestore(t)
    \/ \E t \in Tasks : ApplySaved(t)
    \/ \E t \in Tasks : ApplyStep(t)
    \/ handleGlobalToggle
    \/ \E profile \in AllProfiles : handleDeleteProfile(profile.id)
    \/ \E t \in Tasks : OptionsRaises(t)
    \/ \E t \in Tasks : GetAllRaises(t)

InitSeq == InitWorld /\ caller = "sequential"

SpecSeq == InitSeq /\ [][NextSeq]_vars

\* the listeners of background.ts, with events delivered one after the other
NextTabs ==
    \/ \E tabId \in TabIds, url \in Urls : onBeforeNavigate(tabId, url)
    \/ \E tabId \in TabIds : onCommitted(tabId)
    \/ \E tabId \in TabIds : onActivated(tabId)
    \/ \E tabId \in TabIds : onUpdated(tabId)
    \/ \E t \in Tasks : NavAfterOptions(t)
    \/ \E t \in Tasks : RestoreStep(t)
    \/ \E t \in Tasks : AfterRestore(t)
    \/ \E t \in Tasks : ApplySaved(t)
    \/ \E t \in Tasks : ApplyStep(t)

InitTabs == InitWorld /\ caller = "tabs" /\ store.profilesEnabled

SpecTabs == InitTabs /\ [][NextTabs]_vars

\* one run of task t: the external call it waits for returns, or raises
TaskStep(t) ==
    \/ NavAfterOptions(t)
    \/ OptionsRaises(t)
    \/ RestoreStep(t)
    \/ AfterRestore(t)
    \/ ApplySaved(t)
    \/ GetAllRaises(t)
    \/ ApplyStep(t)

\* the listeners fire handlers that overlap; every external call of a handler
\* returns or raises, and the event loop resumes the handler
NextLive ==
    \/ \E url \in Urls, frameId \in FrameIds :
            handleNavigation(url, frameId) /\ UNCHANGED browser
    \/ \E t \in Tasks : TaskStep(t)

InitLive == InitWorld /\ caller = "listeners" /\ store.profilesEnabled

SpecLive == InitLive /\ [][NextLive]_vars /\ \A t \in Tasks : WF_vars(TaskStep(t))

\* a caller inspecting ProfileMatchState while events are handled one by one
NextCopy ==
    \/ \E url \in Urls : Delivered(url)
    \/ \E t \in Tasks : NavAfterOptions(t)
    \/ \E t \in Tasks : RestoreStep(t)
    \/ \E t \in Tasks : AfterRestore(t)
    \/ \E t \in Tasks : ApplySaved(t)
    \/ \E t \in Tasks : ApplyStep(t)
    \/ clearState
    \/ getCurrentState
    \/ Forget
    \/ WriteField
    \/ WriteSaved

\* the matcher is called on its own; the handlers run on a store that holds a
\* profile with every condition switched off
NextMatch ==
    \/ TestHostWildcard
    \/ TestUrlWildcard
    \/ CallMatchUrl
    \/ CallMatchProfile
    \/ CallFindMatchingProfile
    \/ CallValidatePattern
    \/ \E url \in Urls : query = NoQuery /\ Delivered(url)
    \/ \E t \in Tasks : NavAfterOptions(t)
    \/ \E t \in Tasks : RestoreStep(t)
    \/ \E t \in Tasks : AfterRestore(t)
    \/ \E t \in Tasks : ApplySaved(t)
    \/ \E t \in Tasks : ApplyStep(t)

InitMatch ==
    /\ currentState = IdleState
    /\ installed = Ext
    /\ locked = {}
    /\ \/ query = NoQuery
       \/ \E fn \in MatcherFunctions : query \in Queries(fn)
    /\ enabled \in IF query = NoQuery THEN [Ext -> BOOLEAN] ELSE {[e \in Ext |-> FALSE]}
    /\ baseline = enabled
    /\ tasks = [t \in Tasks |-> IdleTask]
    /\ inForce = [e \in Ext |-> None]
    /\ skipped = FALSE
    /\ lastUrl = Null
    /\ cur = NoRecord
    /\ prev = Summary(NoRecord)
    /\ store = [profilesEnabled |-> TRUE,
                profileGroups |-> <<ProfileA, ProfileB, ProfileD>>]
    /\ browser = [url |-> [tabId \in TabIds |-> UrlN], active |-> 1, event |-> 1]
    /\ got = Null
    /\ undoStack = NewUndoStack
    /\ journal = <<>>
    /\ caller = "matcher"

SpecMatch == InitMatch /\ [][NextMatch]_vars

InitCopy == InitWorld /\ caller = "inspector" /\ store.profilesEnabled

SpecCopy == InitCopy /\ [][NextCopy]_vars

\* the popup: clicks and keys reach one UndoStack; the automation is at rest
NextUndo ==
    \/ \E id \in Ext, ctrlKey \in BOOLEAN : toggleExtension(id, ctrlKey)
    \/ \E doFunction \in ToggleFunctions \cup {Undefined},
          undoFunction \in UndoFunctions \cup {Undefined} :
            CallDo(doFunction, undoFunction)
    \/ \E shiftKey \in BOOLEAN : keyboardEventListener(shiftKey)
    \/ CallClear

InitUndo ==
    /\ InitWorld
    /\ installed = Ext
    /\ locked = {}
    /\ ~store.profilesEnabled
    /\ caller = "popup"

SpecUndo == InitUndo /\ [][NextUndo]_vars

\* ------------------------------------------------------------------ claims
\* the components a profile targets with enable or disable
Targeted(pid) ==
    LET configs == ProfileById(pid).extensionStates
    IN {configs[k].extensionId : k \in {m \in 1..Len(configs) : configs[m].targetState # "keep"}}

\* the controller honours every set request for the components of S
Honours(S) == S \subseteq installed /\ S \cap locked = {}

\* the caller has just completed applyProfileStates from Idle and then restoreOriginalStates
AppliedThenRestored ==
    /\ cur.op = "restore" /\ cur.done
    /\ prev.op = "apply" /\ prev.fromIdle
    /\ Honours(Targeted(prev.pid))

\* C1: applyProfileStates(p, url) from Idle followed by restoreOriginalStates()
\* leaves every component p targets at its pre-apply value and the state Idle.
C1_RoundTrip ==
    AppliedThenRestored =>
        /\ \A e \in Targeted(prev.pid) : enabled[e] = prev.ext0[e]
        /\ currentState = IdleState

\* the apply changed a component and the restore brought it back
C1_Witness ==
    /\ AppliedThenRestored
    /\ \E e \in Targeted(prev.pid) : cur.ext0[e] # prev.ext0[e]

\* the caller has just completed applyProfileStates(p, url2) with p already active
AppliedAgain ==
    /\ cur.op = "apply" /\ cur.done
    /\ cur.st0.activeProfileId = cur.pid

\* C2: applyProfileStates(p, url2) with p already Active issues no call to the
\* component controller and changes nothing but lastMatchedUrl, which becomes url2.
C2_SameProfileNoOp ==
    AppliedAgain =>
        /\ cur.log = <<>>
        /\ enabled = cur.ext0
        /\ currentState = [cur.st0 EXCEPT !.lastMatchedUrl = Some(cur.url)]

\* a second apply of an active profile with a snapshot, under another URL
C2_Witness ==
    /\ AppliedAgain
    /\ cur.st0.savedStates # <<>>
    /\ cur.st0.lastMatchedUrl # Some(cur.url)
    /\ currentState.lastMatchedUrl = Some(cur.url)

\* the caller has just completed applyProfileStates(B, url) with another profile
\* active, none of its external calls having raised
Switched ==
    /\ cur.op = "apply" /\ cur.done /\ ~cur.raised
    /\ cur.st0.activeProfileId \notin {None, cur.pid}

\* the value of component e once the entries of snapshot are restored, from values ext0
RestoredValue(snapshot, ext0, e) ==
    LET hits == {k \in 1..Len(snapshot) : snapshot[k].extensionId = e}
    IN IF hits = {} THEN ext0[e]
       ELSE snapshot[CHOOSE k \in hits : \A m \in hits : m <= k].wasEnabled

\* C3: applyProfileStates(B, url) with A # B active issues every restore request
\* of A's snapshot, then reads B's snapshot, then issues B's target requests; the
\* snapshot holds the restored values and the call ends in Active(B) with url.
C3_SwitchOrdering ==
    Switched =>
        LET old == cur.st0.savedStates
            configs == ProfileById(cur.pid).extensionStates
            targets == SelectSeq(configs, LAMBDA c : c.targetState # "keep")
            listed == SelectSeq(targets, LAMBDA c : c.extensionId \in installed)
            n == Len(old)
            g == IF Len(targets) = 0 THEN 0 ELSE 1
        IN /\ Len(cur.log) = n + g + Len(targets)
           /\ \A k \in 1..n :
                cur.log[k] = SetCall(old[k].extensionId, old[k].wasEnabled, "restore")
           /\ g = 1 => cur.log[n + 1] = GetAllCall
           /\ \A k \in 1..Len(targets) :
                cur.log[n + g + k] =
                    SetCall(targets[k].extensionId, targets[k].targetState = "enable", cur.pid)
           /\ currentState.activeProfileId = cur.pid
           /\ currentState.lastMatchedUrl = Some(cur.url)
           /\ Len(currentState.savedStates) = Len(listed)
           /\ \A k \in 1..Len(listed) :
                /\ currentState.savedStates[k].extensionId = listed[k].extensionId
                /\ currentState.savedStates[k].wasEnabled =
                       RestoredValue(old, cur.ext0, listed[k].extensionId)

\* a switch whose restore changed a component that the new snapshot then recorded
C3_Witness ==
    /\ Switched
    /\ Len(cur.st0.savedStates) > 1
    /\ \E k \in 1..Len(currentState.savedStates) :
          currentState.savedStates[k].wasEnabled #
              cur.ext0[currentState.savedStates[k].extensionId]

\* the positions between a handler's first read and last write of currentState
InRegion(t) == tasks[t].pc \in {"restore_loop", "after_restore", "apply_saved", "apply_loop"}

\* C4: at most one navigation handler is between its first read and its last
\* write of ProfileMatchState.
C4_Serialized == Cardinality({t \in Tasks : InRegion(t)}) <= 1

\* C5: whenever all handlers have finished and ProfileMatchState is Idle, every
\* component has the enabled value it had before the automation applied a profile.
C5_BaselinePreserved ==
    (Quiescent /\ currentState.activeProfileId = None) => enabled = baseline

\* C6: once all handlers have completed, activeProfileId is the match of the URL
\* of the last-delivered event (flag on, profile list not empty).
C6_FinalFollowsLastEvent ==
    (Quiescent /\ ~skipped /\ lastUrl # Null) =>
        currentState.activeProfileId =
            findMatchingProfile(lastUrl[1], getProfileGroups(store))

\* C7: whenever all handlers have finished and Active(p) is recorded, every
\* component p targets that accepts changes holds p's target value.
C7_NoStaleRestore ==
    (Quiescent /\ currentState.activeProfileId # None) =>
        LET configs == ProfileById(currentState.activeProfileId).extensionStates
        IN \A k \in 1..Len(configs) :
              (configs[k].targetState # "keep" /\ Honours({configs[k].extensionId}))
                  => enabled[configs[k].extensionId] = (configs[k].targetState = "enable")

\* task t leaves position pc in this step
Leaves(t, pc) == tasks[t].pc = pc /\ tasks'[t] # tasks[t]

\* C8: a snapshot holds the values its components had immediately before the
\* first set request of its apply, and a committed snapshot is replaced only by
\* the restore that used it.
C8_SnapshotFidelity ==
    [][ /\ \A t \in Tasks : Leaves(t, "apply_saved") =>
              \A k \in 1..Len(tasks[t].saved) :
                  tasks[t].saved[k].wasEnabled = enabled[tasks[t].saved[k].extensionId]
        /\ (currentState.activeProfileId # None
              /\ currentState'.savedStates # currentState.savedStates) =>
              /\ currentState' = IdleState
              /\ \E t \in Tasks : /\ Leaves(t, "restore_loop")
                                  /\ tasks[t].iter = currentState.savedStates
      ]_vars

\* the profiles whose targets are written on some component and not restored
AppliedProfiles == {inForce[e] : e \in Ext} \ {None}

\* C9: the components carry the unrestored targets of at most one profile, which
\* is the recorded active one once the handlers have finished.
C9_AtMostOneApplied ==
    /\ Cardinality(AppliedProfiles) <= 1
    /\ Quiescent => AppliedProfiles \subseteq {currentState.activeProfileId}

\* the caller has just completed a handleNavigation that read the store switched off
HandledWhileOff ==
    /\ cur.op = "nav" /\ cur.done
    /\ ~IsIgnored(cur.url, cur.frameId)
    /\ ~cur.options.profilesEnabled

\* C10: with profilesEnabled false, handleNavigation matches no profile, issues no
\* call to the component controller and leaves ProfileMatchState unchanged.
C10_GlobalDisable ==
    HandledWhileOff =>
        /\ ~cur.matched
        /\ cur.log = <<OptionsCall>>
        /\ currentState = cur.st0
        /\ enabled = cur.ext0

\* a profile is active and the event's URL matches another profile or none
C10_Witness ==
    /\ HandledWhileOff
    /\ cur.st0.activeProfileId # None
    /\ Len(cur.st0.savedStates) > 0
    /\ findMatchingProfile(cur.url, getProfileGroups(cur.options)) # cur.st0.activeProfileId

\* the set requests of a log, in order
SetRequests(log) == SelectSeq(log, LAMBDA call : call.op = "set")

\* the restore requests of a snapshot, in order
RestoreRequests(snapshot) ==
    [k \in 1..Len(snapshot) |->
        SetCall(snapshot[k].extensionId, snapshot[k].wasEnabled, "restore")]

\* this step completes a main-frame handleNavigation that started with a profile
\* Active, with the flag on and a URL that no enabled stored profile matches
LeavesMatchedArea ==
    /\ cur' # cur /\ cur'.op = "nav" /\ cur'.done
    /\ cur'.frameId = 0
    /\ cur'.st0.activeProfileId # None
    /\ store.profilesEnabled /\ store' = store
    /\ cur'.log # <<>> => cur'.options = store
    /\ findMatchingProfile(cur'.url, getProfileGroups(store)) = None

\* C11: a handler for a URL that no enabled profile matches, started with a
\* profile Active and the flag on, issues the restore request of every snapshot
\* entry and ends Idle, for internal URLs and an empty profile list as well.
C11_UnconditionalRestore ==
    [][ LeavesMatchedArea =>
          /\ currentState' = IdleState
          /\ SetRequests(cur'.log) = RestoreRequests(cur'.st0.savedStates)
      ]_vars

\* the handler in flight serves an event of a tab that is not displayed
BackgroundHandler == ~Quiescent /\ browser.event # browser.active

\* all handlers have finished and the active profile is the match of the
\* displayed tab's URL
FollowsDisplayedTab ==
    Quiescent =>
        currentState.activeProfileId =
            findMatchingProfile(browser.url[browser.active], getProfileGroups(store))

\* C12: the handler of a main-frame navigation in a tab that is not displayed
\* changes neither a component's enabled flag nor ProfileMatchState, and once
\* the handlers have finished the active profile is the displayed tab's match.
C12_ActivePageOnly ==
    [][ /\ BackgroundHandler => UNCHANGED <<currentState, enabled>>
        /\ FollowsDisplayedTab'
      ]_vars

\* the configs of profile pid whose target is enable or disable, in order
NonKeep(pid) ==
    SelectSeq(ProfileById(pid).extensionStates, LAMBDA c : c.targetState # "keep")

\* the controller refuses every change of component e
Refuses(e) == e \notin installed \/ e \in locked

\* the caller has just completed applyProfileStates of a profile that was not
\* active, none of its external calls having raised
Applied ==
    /\ cur.op = "apply" /\ cur.done /\ ~cur.raised
    /\ cur.st0.activeProfileId # cur.pid

\* C13: whichever of its set requests the controller refuses, applyProfileStates
\* issues exactly one set request per non-keep config of the profile, in order,
\* and commits the profile id, the snapshot and the URL.
C13_ApplyToleratesRefusal ==
    Applied =>
        LET targets == NonKeep(cur.pid)
            listed == SelectSeq(targets, LAMBDA c : c.extensionId \in installed)
            issued == SelectSeq(cur.log, LAMBDA call : call.op = "set" /\ call.why = cur.pid)
        IN /\ issued = [k \in 1..Len(targets) |->
                          SetCall(targets[k].extensionId,
                                  targets[k].targetState = "enable", cur.pid)]
           /\ currentState.activeProfileId = cur.pid
           /\ currentState.lastMatchedUrl = Some(cur.url)
           /\ Len(currentState.savedStates) = Len(listed)
           /\ \A k \in 1..Len(listed) :
                /\ currentState.savedStates[k].extensionId = listed[k].extensionId
                /\ cur.st0 = IdleState =>
                      currentState.savedStates[k].wasEnabled = cur.ext0[listed[k].extensionId]

\* the first request was refused and a later one changed its component
C13_Witness ==
    /\ Applied
    /\ LET targets == NonKeep(cur.pid)
       IN /\ Len(targets) > 1
          /\ Refuses(targets[1].extensionId)
          /\ \E k \in 2..Len(targets) :
                /\ ~Refuses(targets[k].extensionId)
                /\ enabled[targets[k].extensionId] # cur.ext0[targets[k].extensionId]

\* the caller has just completed restoreOriginalStates
Restored == cur.op = "restore" /\ cur.done

\* C14: restoreOriginalStates issues the set request of every snapshot entry, in
\* order, whichever of them the controller refuses, and ends Idle.
C14_RestoreReachesIdle ==
    Restored =>
        /\ cur.log = RestoreRequests(cur.st0.savedStates)
        /\ currentState = IdleState

\* the first entry was refused and the second one changed its component
C14_Witness ==
    /\ Restored
    /\ LET snapshot == cur.st0.savedStates
       IN /\ Len(snapshot) > 1
          /\ Refuses(snapshot[1].extensionId)
          /\ ~Refuses(snapshot[2].extensionId)
          /\ enabled[snapshot[2].extensionId] # cur.ext0[snapshot[2].extensionId]

\* the caller has just completed a handleNavigation one of whose calls raised
Caught == cur.op = "nav" /\ cur.done /\ cur.raised

\* the enabled flags once the entries of snapshot are restored, where accepted
FlagsRestored(snapshot, ext0) ==
    [e \in Ext |-> IF Refuses(e) THEN ext0[e] ELSE RestoredValue(snapshot, ext0, e)]

\* C15: when the store or the controller raises during handleNavigation, the
\* handler completes, and ProfileMatchState and the enabled flags are either as
\* they were at the call or as the completed restore of the call left them.
C15_ErrorsCaught ==
    Caught =>
        /\ Quiescent
        /\ \/ currentState = cur.st0 /\ enabled = cur.ext0
           \/ /\ currentState = IdleState
              /\ SetRequests(cur.log) = RestoreRequests(cur.st0.savedStates)
              /\ enabled = FlagsRestored(cur.st0.savedStates, cur.ext0)

\* the snapshot read raised after the restore of the previous profile changed a flag
C15_Witness ==
    /\ Caught
    /\ cur.st0.activeProfileId # None
    /\ currentState = IdleState
    /\ enabled # cur.ext0

\* the ids a matching profile can have
ProfileIds == {profile.id : profile \in AllProfiles}

\* the caller has just completed a handleNavigation that started Idle, consulted
\* shouldRestoreStates and found no profile to apply
OnlyConsulted ==
    /\ cur.op = "nav" /\ cur.done /\ cur.matched /\ ~cur.raised
    /\ cur.st0 = IdleState
    /\ findMatchingProfile(cur.url, getProfileGroups(cur.options)) = None

\* C16: shouldRestoreStates is false when Idle, true when Active and no profile
\* matches, and otherwise true exactly when the matching profile is not the active
\* one; newUrl has no influence, and a handler that does nothing else than consult
\* it issues no controller request and leaves ProfileMatchState as it was.
C16_ShouldRestoreTable ==
    /\ \A url \in Urls, matching \in ProfileIds \cup {None} :
          LET active == currentState.activeProfileId
              answer == shouldRestoreStates(url, matching)
          IN /\ active = None => ~answer
             /\ (active # None /\ matching = None) => answer
             /\ (active # None /\ matching # None) => (answer <=> matching # active)
             /\ \A other \in Urls : shouldRestoreStates(other, matching) = answer
    /\ OnlyConsulted =>
          /\ cur.log = <<OptionsCall>>
          /\ currentState = cur.st0
          /\ enabled = cur.ext0

\* a handler found another profile than the active one, restored and applied it;
\* for the new active profile the answer is now false, for the old one true
C16_Witness ==
    /\ cur.op = "nav" /\ cur.done /\ cur.matched
    /\ cur.st0.activeProfileId \notin {None, currentState.activeProfileId}
    /\ currentState.activeProfileId # None
    /\ ~shouldRestoreStates(cur.url, currentState.activeProfileId)
    /\ shouldRestoreStates(cur.url, cur.st0.activeProfileId)

\* the profile whose target a set request writes or whose snapshot it restores,
\* for a request of the caller's current call
ProfileOf(call) == IF call.why = "restore" THEN cur.st0.activeProfileId ELSE call.why

\* C17: a component that the applied profile keeps, or does not list, is in no
\* snapshot and receives no set request from the apply or from its restore.
C17_KeepIsNoOp ==
    /\ currentState.activeProfileId # None =>
          \A k \in 1..Len(currentState.savedStates) :
              currentState.savedStates[k].extensionId
                  \in Targeted(currentState.activeProfileId)
    /\ \A k \in 1..Len(cur.log) :
          cur.log[k].op = "set" =>
              /\ ProfileOf(cur.log[k]) # None
              /\ cur.log[k].id \in Targeted(ProfileOf(cur.log[k]))

\* a profile that keeps a component the controller would change was applied and
\* is now restored, with some request accepted
C17_Witness ==
    /\ Restored
    /\ cur.st0.activeProfileId # None
    /\ enabled # cur.ext0
    /\ LET configs == ProfileById(cur.st0.activeProfileId).extensionStates
       IN \E k \in 1..Len(configs) :
             configs[k].targetState = "keep" /\ ~Refuses(configs[k].extensionId)

\* a step of the inspecting caller on the object it holds
CallerWrites == WriteField \/ WriteSaved

\* a step of the program while the caller holds a returned object
ProgramSteps == got # Null /\ got' # Null /\ ~CallerWrites

\* C18: no later change of ProfileMatchState alters an object getCurrentState()
\* returned, and nothing the caller writes to that object, its savedStates
\* sequence included, alters the live ProfileMatchState.
C18_ReturnsCopy ==
    [][ /\ ProgramSteps => got'[1].value = got[1].value
        /\ CallerWrites => currentState' = currentState
      ]_vars

\* the caller has just completed a restoreOriginalStates that found no profile
\* Active or an empty snapshot, or that followed another restoreOriginalStates
RestoredAgain ==
    /\ Restored
    /\ \/ cur.st0.activeProfileId = None
       \/ cur.st0.savedStates = <<>>
       \/ prev.op = "restore"

\* C19: restoreOriginalStates with no profile Active or an empty snapshot issues
\* no set request and leaves the state Idle; a second call right after a first
\* changes neither the components nor ProfileMatchState.
C19_RestoreIdempotent ==
    RestoredAgain =>
        /\ cur.log = <<>>
        /\ enabled = cur.ext0
        /\ currentState = IdleState
        /\ prev.op = "restore" => cur.st0 = IdleState

\* the second of two calls, the first of which restored a snapshot and changed a flag
C19_Witness ==
    /\ Restored
    /\ prev.op = "restore" /\ ~prev.fromIdle
    /\ prev.ext0 # cur.ext0

\* C20: every handler that was started, with the applyProfileStates and
\* restoreOriginalStates calls it makes, finishes, whatever other handlers do,
\* given that each of its external calls returns or raises.
C20_RunToCompletion ==
    \A t \in Tasks : (tasks[t].pc # "idle") ~> (tasks[t].pc = "idle")

\* a handler in its restore loop while another one is past its snapshot read
C20_Witness ==
    \E t, u \in Tasks :
        /\ t # u
        /\ tasks[t].pc = "restore_loop" /\ tasks[t].i = 2
        /\ tasks[u].pc \in {"apply_saved", "apply_loop"}

\* ------------------------------------------------------ claims on the matcher
\* the matcher was called with function fn and has returned
Answered(fn) == query.fn = fn /\ query.done

\* profile is enabled and one of its enabled conditions accepts url
EnabledMatch(url, profile) ==
    /\ profile.enabled
    /\ \E k \in 1..Len(profile.conditions) :
            profile.conditions[k].enabled /\ matchUrl(url, profile.conditions[k])

C22_AnyConditionOfEnabledProfile ==
    Answered("matchProfile") =>
        LET profile == query.profiles[1]
        IN  /\ query.matches <=> EnabledMatch(query.subject, profile)
            /\ profile.conditions = <<>> => ~query.matches
            /\ ~profile.enabled => ~query.matches

\* an enabled profile matched by its second condition, the first being off
C22_Witness ==
    /\ Answered("matchProfile")
    /\ query.profiles[1].enabled
    /\ Len(query.profiles[1].conditions) = 2
    /\ ~query.profiles[1].conditions[1].enabled
    /\ query.matches

\* every condition of the profile is switched off
AllConditionsOff(profile) ==
    \A k \in 1..Len(profile.conditions) : ~profile.conditions[k].enabled

\* the profiles a handler is applying or has applied
BeingApplied ==
    {currentState.activeProfileId} \cup {tasks[t].prof : t \in Tasks}

\* C23: for every url, pattern and match type, matchUrl is false when the
\* condition is switched off; a profile whose conditions are all switched off
\* never matches, and no navigation event applies it.
C23_DisabledConditionNeverMatches ==
    /\ Answered("matchUrl") /\ ~query.enabled => ~query.matches
    /\ Answered("matchProfile") /\ AllConditionsOff(query.profiles[1]) => ~query.matches
    /\ \A k \in 1..Len(store.profileGroups) :
            AllConditionsOff(store.profileGroups[k]) =>
                store.profileGroups[k].id \notin BeingApplied

\* a handler applied profile A although the stored profile D outranks it and
\* D's only condition, switched off, is written to accept every URL
C23_Witness ==
    /\ caller = "matcher"
    /\ currentState.activeProfileId = "A"
    /\ \E k \in 1..Len(store.profileGroups) :
            /\ AllConditionsOff(store.profileGroups[k])
            /\ store.profileGroups[k].priority > ProfileA.priority
            /\ matchUrlPattern(currentState.lastMatchedUrl[1], store.profileGroups[k].conditions[1])

\* a domain name: no wildcard in it
IsDomain(d) == \A k \in 1..Len(d) : d[k] # "*"

\* the same characters; the same characters up to the case of the letters
SameString(x, y) == x = y
SameHost(x, y) ==
    /\ Len(x) = Len(y)
    /\ \A k \in 1..Len(x) : toLowerCase(x[k]) = toLowerCase(y[k])

\* h is a non-empty prefix, a dot, and d
SubdomainOf(h, d, Same(_, _)) ==
    \E k \in 2..Len(h) : h[k] = "." /\ Same(SubSeq(h, k + 1, Len(h)), d)

\* the answer for pattern form \o d and host h is the one the leading form asks for
LeadingFormsLaw(Same(_, _)) ==
    Answered("hostWildcardToRegex") =>
        LET pattern == query.pattern
            h == query.subject
            d(n) == SubSeq(pattern, n + 1, Len(pattern))
        IN  IF StartsWith(pattern, <<"*", "*", ".">>)
            THEN IsDomain(d(3)) => (query.matches <=> SubdomainOf(h, d(3), Same))
            ELSE IF StartsWith(pattern, <<"*", ".">>)
            THEN IsDomain(d(2)) =>
                    (query.matches <=> (Same(h, d(2)) \/ SubdomainOf(h, d(2), Same)))
            ELSE IF StartsWith(pattern, <<".">>)
            THEN IsDomain(d(1)) =>
                    (query.matches <=> (Same(h, d(1)) \/ SubdomainOf(h, d(1), Same)))
            ELSE IsDomain(pattern) => (query.matches <=> Same(h, pattern))

\* C24 as stated: `*.`d and `.`d match host h exactly when h equals d or h is a
\* non-empty prefix, a dot and d; `**.`d matches exactly in the second case,
\* never h = d; a suffix without the separating dot is rejected, and a pattern
\* covers the whole host.
C24_LeadingForms ==
    LeadingFormsLaw(SameString)

\* C24, amended: the same, hosts and domains compared without regard to the
\* case of their letters.
C24_LeadingFormsAnyCase ==
    LeadingFormsLaw(SameHost)

\* `**.`d was tried on the host d and on a host that ends with d without a dot
C24_Witness ==
    /\ Answered("hostWildcardToRegex")
    /\ StartsWith(query.pattern, <<"*", "*", ".">>)
    /\ Len(query.pattern) = 4
    /\ query.subject \in {<<query.pattern[4]>>, <<"a", query.pattern[4]>>}
    /\ query.pattern[4] # "*"
    /\ ~query.matches

\* the sum of f over the set S of its arguments
RECURSIVE SumOver(_, _)
SumOver(f, S) ==
    IF S = {} THEN 0
    ELSE LET k == CHOOSE m \in S : TRUE IN f[k] + SumOver(f, S \ {k})

\* url can be cut into one piece per character of pattern: any piece, empty
\* or not, for a `*`, and the character itself for every other character.
\* piece[k] is the length of the piece of the `*` at place k of the pattern.
Splits(pattern, url) ==
    LET stars == {k \in 1..Len(pattern) : pattern[k] = "*"}
    IN  \E piece \in [stars -> 0..Len(url)] :
            LET before(k) == {m \in stars : m < k}
                \* where in url the piece of place k starts
                start(k) == k - Cardinality(before(k)) + SumOver(piece, before(k))
            IN  /\ start(Len(pattern) + 1) = Len(url) + 1
                /\ \A k \in 1..Len(pattern) \ stars :
                        start(k) <= Len(url) /\ url[start(k)] = pattern[k]

\* C25: a url-wildcard pattern matches a URL exactly when the URL can be split
\* so that each `*` stands for an arbitrary, possibly empty, sequence and every
\* other pattern character equals the corresponding URL character, the whole
\* URL being covered.
C25_UrlWildcardSplits ==
    Answered("urlWildcardToRegex") =>
        (query.matches <=> Splits(query.pattern, query.subject))

\* a pattern matched a URL one character shorter: its `*` stood for nothing
C25_Witness ==
    /\ Answered("urlWildcardToRegex")
    /\ query.matches
    /\ Len(query.subject) = MaxUrlPattern - 1
    /\ Len(query.pattern) = MaxUrlPattern
    /\ query.pattern[2] = "*"

\* nothing but spaces, if anything
Blank(pattern) == \A k \in 1..Len(pattern) : pattern[k] = " "

\* validatePattern returns in this step
Validates == Asked("validatePattern") /\ query'.done

\* C26: validatePattern returns a non-empty error for an empty or
\* whitespace-only pattern of any type and for a regex pattern that does not
\* compile, and none for every other input; it returns (it does not raise) and
\* leaves ProfileMatchState and the profile definitions unchanged.
C26_ValidatePattern ==
    [][ Validates =>
            /\ query'.value # None <=>
                    \/ Blank(query.pattern)
                    \/ query.type = "regex" /\ ~RegExpCompiles(query.pattern)
            /\ query'.value # ""
            /\ UNCHANGED <<currentState, store>> ]_vars

\* a pattern that is not blank and is no regular expression was refused as a
\* regex
C26_Witness ==
    /\ Answered("validatePattern")
    /\ query.type = "regex"
    /\ ~Blank(query.pattern)
    /\ ~RegExpCompiles(query.pattern)
    /\ query.value # None

\* ------------------------------------------- claims on ProfileMatchState
\* no profile, no snapshot and no URL; or a profile and its URL
IdleConsistent ==
    /\ currentState.activeProfileId = None =>
            /\ currentState.savedStates = <<>>
            /\ currentState.lastMatchedUrl = Null
    /\ currentState.activeProfileId # None => currentState.lastMatchedUrl # Null

\* C27: ProfileMatchState starts as {none, [], none}, and in every reachable
\* state, however the handlers interleave, no active profile means an empty
\* snapshot and no last matched URL, and an active profile means a last
\* matched URL.
C27_IdleConsistency ==
    /\ currentState = IdleState
    /\ []IdleConsistent

\* a handler has restored a profile with a snapshot while another handler was
\* in flight
C27_Witness ==
    /\ currentState = IdleState
    /\ \E t, u \in Tasks :
            /\ tasks[t].pc = "after_restore"
            /\ tasks[u].pc \notin {"idle", "after_restore"}
            /\ tasks[u].prof # None

\* the components of a sequence of configs or of snapshot entries, in order
ExtensionIds(entries) == [k \in 1..Len(entries) |-> entries[k].extensionId]

\* the configs of profile pid with target enable or disable whose component
\* the controller lists, in order
ListedTargets(pid) ==
    SelectSeq(ProfileById(pid).extensionStates,
              LAMBDA config : config.targetState # "keep" /\ config.extensionId \in installed)

\* C28: while a profile is active, the snapshot is the one taken by the call
\* that made it active: one entry, in order, for each config of that profile
\* with target enable or disable whose component the controller listed, and no
\* other entry.
C28_SnapshotOfActiveProfile ==
    currentState.activeProfileId # None =>
        ExtensionIds(currentState.savedStates)
            = ExtensionIds(ListedTargets(currentState.activeProfileId))

\* profile A is active with an entry for one of its two targets, the controller
\* not listing the other
C28_Witness ==
    /\ currentState.activeProfileId = "A"
    /\ Len(currentState.savedStates) = 1
    /\ Len(TargetConfigs(ProfileA.extensionStates)) = 2
    /\ \E t \in Tasks : tasks[t].pc # "idle"

\* ------------------------------------------------ claims on handleNavigation
\* the caller's navigation event is one the handler must ignore
IgnoredEvent ==
    /\ cur.op = "nav"
    /\ \/ cur.frameId # 0
       \/ \E prefix \in SkippedPrefixes : StartsWith(cur.url, prefix)

\* C29: an event of a sub-frame (frameId other than 0), or whose URL starts
\* with chrome://, chrome-extension://, about:, edge:// or brave://, returns at
\* once: nothing is read from the store, no request goes to the component
\* controller, and ProfileMatchState is as it was.
C29_IgnoredEventsInert ==
    IgnoredEvent =>
        /\ cur.done
        /\ cur.log = <<>>
        /\ currentState = cur.st0
        /\ enabled = cur.ext0
        /\ Quiescent

\* an internal page was reported in the main frame while a profile was active
C29_Witness ==
    /\ IgnoredEvent
    /\ cur.frameId = 0
    /\ cur.url # UrlInternal
    /\ cur.st0.activeProfileId # None

\* the caller's handleNavigation found, with profile A active, that the URL
\* matches another profile B
FoundOtherProfile ==
    /\ cur.op = "nav"
    /\ cur.matched
    /\ cur.st0.activeProfileId # None
    /\ findMatchingProfile(cur.url, getProfileGroups(cur.options))
            \notin {None, cur.st0.activeProfileId}

\* the restore requests of a log, in order
RestoresIn(log) == SelectSeq(log, LAMBDA call : call.op = "set" /\ call.why = "restore")

\* in the log, every restore request comes before the snapshot read and the
\* set requests of the new profile
RestoresFirst(log) ==
    \A i, j \in 1..Len(log) :
        /\ log[i].op = "set" /\ log[i].why = "restore"
        /\ log[j].op = "getAll" \/ (log[j].op = "set" /\ log[j].why # "restore")
        => i < j

\* C30: a single handleNavigation that finds profile B while another profile A
\* is active, no other handler being in flight, issues exactly one restore
\* request per entry of A's snapshot, all of them from its own call of
\* restoreOriginalStates and before B's snapshot is read; the restore branch
\* inside applyProfileStates is not taken.
C30_RestoreOnceOnSwitch ==
    FoundOtherProfile =>
        /\ \A t \in Tasks : tasks[t].ret # "apply"
        /\ RestoresFirst(cur.log)
        /\ cur.done => RestoresIn(cur.log) = RestoreRequests(cur.st0.savedStates)

\* a handler has switched from a profile with a snapshot to another profile
\* with targets
C30_Witness ==
    /\ FoundOtherProfile
    /\ cur.done /\ ~cur.raised
    /\ Len(cur.st0.savedStates) > 0
    /\ currentState.activeProfileId \notin {None, cur.st0.activeProfileId}
    /\ Len(currentState.savedStates) > 0

\* the caller has handled the same main-frame URL twice in a row, neither
\* handling raising, and both read the same options from the store
HandledTwice ==
    /\ cur.op = "nav" /\ cur.done /\ ~cur.raised
    /\ cur.again # Null
    /\ cur.options = cur.again[1]

LastCall(op) == journal # <<>> /\ journal[1].op = op /\ ~journal[1].raised

Entries(self) == Len(self.undoStack) + Len(self.redoStack)

\* do(f, u): the redo stack is empty, (f, u) is on top of the undo stack that
\* was there, and f(true) was called once
DoDiscipline ==
    LastCall("do") =>
        LET f == journal[1].args[1]
            u == journal[1].args[2]
        IN  /\ undoStack.redoStack = <<>>
            /\ undoStack.undoStack = Append(journal[1].before.undoStack, <<f, u>>)
            /\ journal[1].called = << <<f, TRUE>> >>

\* undo() on a non-empty undo stack: the top entry went to the redo stack and
\* u(false) was called if the entry has a u, else f(false)
UndoDiscipline ==
    LastCall("undo") /\ journal[1].before.undoStack # <<>> =>
        LET before == journal[1].before
            entry == before.undoStack[Len(before.undoStack)]
        IN  /\ Append(undoStack.undoStack, entry) = before.undoStack
            /\ undoStack.redoStack = Append(before.redoStack, entry)
            /\ journal[1].called =
                    << <<IF entry[2] = Undefined THEN entry[1] ELSE entry[2], FALSE>> >>

\* redo() on a non-empty redo stack: the top entry went back to the undo stack
\* and f(true) was called
RedoDiscipline ==
    LastCall("redo") /\ journal[1].before.redoStack # <<>> =>
        LET before == journal[1].before
            entry == before.redoStack[Len(before.redoStack)]
        IN  /\ Append(undoStack.redoStack, entry) = before.redoStack
            /\ undoStack.undoStack = Append(before.undoStack, entry)
            /\ journal[1].called = << <<entry[1], TRUE>> >>

\* undo() or redo() on an empty stack calls nothing and changes neither stack
EmptyDiscipline ==
    \/ LastCall("undo") /\ journal[1].before.undoStack = <<>>
    \/ LastCall("redo") /\ journal[1].before.redoStack = <<>>
    => journal[1].called = <<>> /\ undoStack = journal[1].before

\* undo and redo keep the number of entries of the two stacks together
SameEntries ==
    LastCall("undo") \/ LastCall("redo") => Entries(undoStack) = Entries(journal[1].before)

\* the popup's last two calls were undo() and then redo()
UndoThenRedo == Len(journal) = 2 /\ LastCall("redo") /\ journal[2].op = "undo"

Discipline ==
    DoDiscipline /\ UndoDiscipline /\ RedoDiscipline /\ EmptyDiscipline /\ SameEntries

\* C32 as stated: do, undo and redo move entries and call the callbacks as
\* described, undo and redo keep the number of entries, and undo followed by
\* redo leaves both stacks as they were before the undo, whatever they held.
C32_UndoStackDiscipline ==
    /\ Discipline
    /\ UndoThenRedo => undoStack = journal[2].before

\* C32: do(f, u) empties the redo stack, pushes (f, u) on the undo stack and
\* calls f(true) once; undo() on a non-empty undo stack pops the top entry,
\* calls u(false) if u was given else f(false), and pushes the entry on the
\* redo stack; redo() does the reverse and calls f(true); on an empty stack
\* each calls nothing and changes nothing; undo and redo keep the number of
\* entries; and an undo() that found an entry to undo, followed by redo(),
\* leaves both stacks as they were before the undo.
C32_UndoThenRedoOfAnEntry ==
    /\ Discipline
    /\ UndoThenRedo /\ journal[2].before.undoStack # <<>> =>
            undoStack = journal[2].before

\* an entry with an undo function of its own was undone and redone while the
\* redo stack held another entry
C32_Witness ==
    /\ UndoThenRedo
    /\ journal[2].before.undoStack # <<>>
    /\ journal[2].before.redoStack # <<>>
    /\ undoStack.undoStack[Len(undoStack.undoStack)][2] # Undefined
    /\ undoStack = journal[2].before
====
